---- MODULE Spec2Model ----
(***************************************************************************)
(* Model of src/backend/app.py: the in-memory round store ROUNDS, the      *)
(* sweep cleanup_old_rounds and the two request handlers create_round and  *)
(* reveal. The Flask development server started by app.run serves each     *)
(* request in its own thread, so the handlers' accesses to ROUNDS and to   *)
(* the clock interleave; every action below is one access to shared state  *)
(* together with the thread-local computation that follows it.             *)
(***************************************************************************)
EXTENDS Integers, FiniteSets, Sequences, TLC

\* ---------------------------------------------------------------- bounds
\* Requests served in one behaviour.
MaxReq == 3
\* Clock advances in one behaviour.
MaxTicks == 1

\* ------------------------------------------------------ program constants
\* ROUND_TTL_SECONDS = 10 * 60 (app.py line 24).
ROUND_TTL_SECONDS == 10 * 60
\* random.randint(0, 100) (line 151) and 0 <= guess_int <= 100 (line 196).
TargetMin == 0
TargetMax == 100
GuessMin == 0
GuessMax == 100
\* num_score > 80 (line 205) and max(0, 100 - distance) (line 203).
WinThreshold == 80
FullScore == 100

\* A value that is absent (Python None, or a local not yet assigned).
NoInt == 0 - 1

Requests == 1 .. MaxReq
\* Round ids are the uuid4 values of line 161: the k-th id issued is k, and
\* no id is issued twice. The roundId of a reveal body is missing or empty,
\* an id some create_round has returned, or a hashable value that is never
\* issued.
MissingId == 0
BogusId == MaxReq + 1
\* A roundId that is a non-empty array or object: it is truthy and cannot be
\* hashed, so the lookup of line 185 raises TypeError.
UnhashableId == MaxReq + 2
\* request.get_json(silent=True) or {} (lines 145, 181): the body is a JSON
\* object (or is absent, unreadable or falsy, which gives {}), or it is
\* another truthy JSON value (an array, a string, a number), which has no
\* get.
BodyShapes == {"object", "other"}
\* Targets the model draws (a sample of random.randint(0, 100)).
Targets == {TargetMin + 5, 50}
\* Clock advances, in seconds: a moment, exactly the TTL, just over the TTL.
TickSteps == {1, ROUND_TTL_SECONDS, ROUND_TTL_SECONDS + 1}

Min(S) == CHOOSE x \in S : \A y \in S : x <= y
AbsInt(x) == IF x < 0 THEN 0 - x ELSE x
Max2(a, b) == IF a >= b THEN a ELSE b

\* ------------------------------------------------------------ the guess
\* JSON values a reveal body can carry as "guess":
\*   null   : None (or the key is absent)
\*   int    : the integer v
\*   float  : the number v / 10 (one decimal digit)
\*   bool   : true (v = 1) or false (v = 0)
\*   numstr : a string that is the decimal literal of the integer v
\*   text   : a string that is no integer literal
\*   list   : an array or object
\*   inf    : Infinity (json.loads accepts it)
GuessValue(t, v) == [t |-> t, v |-> v]
Guesses ==
    { GuessValue("null", 0), GuessValue("int", 31), GuessValue("int", 150),
      GuessValue("text", 0), GuessValue("float", 37) }

\* Truncation toward zero of v / 10, as int() does for a float.
TruncTenths(v) == IF v >= 0 THEN v \div 10 ELSE 0 - ((0 - v) \div 10)

\* int(guess) (line 192): the integer, or the exception it raises.
PyInt(g) ==
    CASE g.t = "int"    -> [exc |-> "none", val |-> g.v]
      [] g.t = "bool"   -> [exc |-> "none", val |-> g.v]
      [] g.t = "float"  -> [exc |-> "none", val |-> TruncTenths(g.v)]
      [] g.t = "numstr" -> [exc |-> "none", val |-> g.v]
      [] g.t = "text"   -> [exc |-> "ValueError", val |-> NoInt]
      [] g.t = "list"   -> [exc |-> "TypeError", val |-> NoInt]
      [] g.t = "null"   -> [exc |-> "TypeError", val |-> NoInt]
      [] g.t = "inf"    -> [exc |-> "OverflowError", val |-> NoInt]

\* ------------------------------------------------------------ responses
Pending == [status |-> 0]
ErrorResponse(code, msg) == [status |-> code, error |-> msg]
\* An exception no handler catches: Flask answers 500.
Fault(exc) == [status |-> 500, error |-> "unhandled", exc |-> exc]
UnknownRound == ErrorResponse(400, "unknown_or_expired_round")

\* The response of line 186, for a round id that is not a key of ROUNDS
\* (h: the history of the ids issued, which the code does not keep).
LookupMiss(h, id) == UnknownRound

\* Lines 202-208.
Distance(guess_int, target) == AbsInt(guess_int - target)
NumScore(distance) == Max2(0, FullScore - distance)
\* The comparison of line 205 with >= for >.
Score_AtLeast(num_score) ==
    IF num_score >= WinThreshold THEN "You Won!" ELSE "AWW... You Lost!"

Score(num_score) ==
    IF num_score > WinThreshold THEN "You Won!" ELSE "AWW... You Lost!"

\* Line 211.
RevealResponse(guess_int, target) ==
    [status |-> 200, target |-> target,
     distance |-> Distance(guess_int, target),
     score |-> Score(NumScore(Distance(guess_int, target)))]

\* Lines 165-174.
CreateResponse(round_id, target) ==
    [status |-> 200, roundId |-> round_id, theme |-> "theme",
     leftAnchor |-> "left", rightAnchor |-> "right",
     spectrumLabel |-> "label", clue |-> "clue"]

\* ---------------------------------------------------------------- state
VARIABLES
    ROUNDS,   \* the store: round id -> [target, created_at]
    clock,    \* time.time(), in seconds
    ticks,    \* clock advances so far
    req,      \* per request: position, locals, response
    hist,     \* per issued id: what was drawn, who put it, who removed it
    sc,       \* the scoring functions applied to one (guess, target) pair
    rv        \* one reveal served alone: its body and its response

vars == <<ROUNDS, clock, ticks, req, hist, sc, rv>>

EmptyStore == [i \in {} |-> [target |-> 0, created_at |-> 0]]
Put(store, id, rec) ==
    [i \in (DOMAIN store) \cup {id} |-> IF i = id THEN rec ELSE store[i]]
\* dict.pop(id, None).
Pop(store, id) == [i \in (DOMAIN store) \ {id} |-> store[i]]

\* A request: pc is its position in the handler; kind, body and rid are the
\* route, the shape of the body and its roundId; now, itLen, itPos, itSeen,
\* expired, guess, target and created_at are the locals of cleanup_old_rounds
\* and of the handler; resp is the response. History, which the code does not keep: prior (the requests
\* that had returned when this one arrived), atStart (the keys of ROUNDS
\* when it arrived), cause (what the lookup of line 185 found, or what the
\* generator call that failed did) and clued (the target that was passed to
\* make_clue).
IdleReq ==
    [pc |-> "idle", kind |-> "none", body |-> "object", rid |-> NoInt,
     now |-> NoInt, itLen |-> 0, itPos |-> 0, itSeen |-> 0, expired |-> {},
     guess |-> NoInt, target |-> NoInt, created_at |-> NoInt,
     resp |-> Pending,
     prior |-> {}, atStart |-> {}, cause |-> "none", clued |-> NoInt]

NoScore == [guess |-> NoInt, target |-> NoInt, resp |-> Pending]
NoReveal ==
    [body |-> "object", rid |-> NoInt, guess |-> GuessValue("null", 0),
     resp |-> Pending]

Init ==
    /\ ROUNDS = EmptyStore
    /\ clock = 0
    /\ ticks = 0
    /\ req = [r \in Requests |-> IdleReq]
    /\ hist = EmptyStore
    /\ sc = NoScore
    /\ rv = NoReveal

\* The request ends with this response; its locals are dropped.
Finish(r, response) ==
    [req EXCEPT ![r] = [@ EXCEPT !.pc = "done", !.resp = response,
                                 !.itLen = 0, !.itPos = 0, !.itSeen = 0,
                                 !.expired = {}, !.guess = NoInt,
                                 !.target = NoInt, !.created_at = NoInt,
                                 !.clued = NoInt]]

\* The record of id leaves the store (if it is there): note who removed it.
NoteRemoved(h, store, id, r, via) ==
    IF id \in DOMAIN store
    THEN [h EXCEPT ![id] = [@ EXCEPT !.removedBy = r, !.via = via]]
    ELSE h

\* ------------------------------------------------------- cleanup_old_rounds
\* A request arrives (create_round line 143, reveal line 179) and enters
\* cleanup_old_rounds: now = time.time() (line 27). The body it carries is
\* fixed here and read later (lines 145, 181-183): a reveal body that is an
\* object has a roundId, any other body has none.
request_begin(r) ==
    /\ req[r].pc = "idle"
    /\ \A s \in Requests : s < r => req[s].pc # "idle"
    /\ \E k \in {"create", "reveal"} : \E b \in BodyShapes :
       \E id \in {MissingId, BogusId, UnhashableId} \cup DOMAIN hist :
           /\ (k = "create" \/ b = "other") => id = MissingId
           /\ req' = [req EXCEPT ![r] =
                  [@ EXCEPT !.pc = "iter", !.kind = k, !.body = b,
                            !.rid = IF k = "reveal" /\ b = "object"
                                    THEN id ELSE NoInt,
                            !.now = clock,
                            !.prior = {s \in Requests : req[s].pc = "done"},
                            !.atStart = DOMAIN ROUNDS]]
    /\ UNCHANGED <<ROUNDS, clock, ticks, hist, sc, rv>>

\* Line 29: ROUNDS.items() is called and the comprehension creates its
\* iterator, which notes the dict's size.
cleanup_iter(r) ==
    /\ req[r].pc = "iter"
    /\ req' = [req EXCEPT ![r].pc = "scan",
                          ![r].itLen = Cardinality(DOMAIN ROUNDS)]
    /\ UNCHANGED <<ROUNDS, clock, ticks, hist, sc, rv>>

\* A filter that also takes the records whose age is exactly the TTL.
IsExpired_AtTTL(now, data) == now - data.created_at >= ROUND_TTL_SECONDS

\* The filter of line 30.
IsExpired(now, data) == now - data.created_at > ROUND_TTL_SECONDS

\* One step of the list comprehension of lines 28-31: the dict iterator raises
\* RuntimeError when the dict's size differs from the size it noted
\* ("dictionary changed size during iteration") or when it finds an entry
\* after yielding that many ("dictionary keys changed during iteration");
\* otherwise it yields the next entry in insertion order, or ends. (Ids are
\* issued in insertion order, so the entries after position itPos are the
\* keys greater than itPos; a resize of the dict, which can make the
\* iterator skip entries, needs more requests than MaxReq and is not
\* modelled.)
cleanup_scan(r) ==
    /\ req[r].pc = "scan"
    /\ LET q == req[r]
           rest == {k \in DOMAIN ROUNDS : k > q.itPos}
       IN  IF Cardinality(DOMAIN ROUNDS) # q.itLen
           THEN req' = Finish(r, Fault("RuntimeError"))
           ELSE IF rest = {}
           THEN req' = [req EXCEPT ![r] =
                    [@ EXCEPT !.pc = IF q.expired = {} THEN "body" ELSE "pop",
                              !.itLen = 0, !.itPos = 0, !.itSeen = 0]]
           ELSE IF q.itSeen = q.itLen
           THEN req' = Finish(r, Fault("RuntimeError"))
           ELSE LET k == Min(rest)
                IN  req' = [req EXCEPT ![r] =
                        [@ EXCEPT !.itPos = k, !.itSeen = @ + 1,
                                  !.expired =
                                      IF IsExpired(q.now, ROUNDS[k])
                                      THEN @ \cup {k} ELSE @]]
    /\ UNCHANGED <<ROUNDS, clock, ticks, hist, sc, rv>>

\* One iteration of the loop of lines 32-33: ROUNDS.pop(rid, None).
cleanup_pop(r) ==
    /\ req[r].pc = "pop"
    /\ LET k == Min(req[r].expired)
           left == req[r].expired \ {k}
       IN  /\ ROUNDS' = Pop(ROUNDS, k)
           /\ hist' = NoteRemoved(hist, ROUNDS, k, r, "sweep")
           /\ req' = [req EXCEPT ![r] =
                  [@ EXCEPT !.expired = left,
                            !.pc = IF left = {} THEN "body" ELSE "pop"]]
    /\ UNCHANGED <<clock, ticks, sc, rv>>

\* ----------------------------------------------------------------- reveal
\* Why the round id of a reveal is not a key of ROUNDS when line 185 looks it
\* up: it was never issued, a reveal popped it, or a sweep popped it.
LookupCause(h, store, round_id) ==
    IF round_id \in DOMAIN store THEN "present"
    ELSE IF round_id \notin DOMAIN h THEN "never"
    ELSE IF h[round_id].via = "reveal" THEN "revealed"
    ELSE "expired"

\* Lines 188-197: the validation of the guess. The response that ends the
\* request, or Pending when the guess is accepted.
GuessRejection(g) ==
    LET conv == PyInt(g)
    IN  IF g.t = "null"
        THEN ErrorResponse(400, "guess is required")
        ELSE IF conv.exc \in {"TypeError", "ValueError"}
        THEN ErrorResponse(400, "guess must be an integer 0-100")
        ELSE IF conv.exc # "none"
        THEN Fault(conv.exc)
        ELSE IF ~(GuessMin <= conv.val /\ conv.val <= GuessMax)
        THEN ErrorResponse(400, "guess out of range")
        ELSE Pending

\* Lines 181-185: the exception that reading the body and looking the round
\* id up raises. body.get (line 182) raises AttributeError on a body that is
\* no object; round_id not in ROUNDS (line 185) raises TypeError on a
\* roundId that cannot be hashed.
BodyException(body, round_id) ==
    IF body # "object" THEN "AttributeError"
    ELSE IF round_id = UnhashableId THEN "TypeError"
    ELSE "none"

\* reveal with the record taken out as soon as the lookup succeeds, before
\* the guess is validated.
reveal_check_TakeFirst(r) ==
    /\ req[r].pc = "body"
    /\ req[r].kind = "reveal"
    /\ \E g \in Guesses :
       LET round_id == req[r].rid
           exc == BodyException(req[r].body, round_id)
           cause == LookupCause(hist, ROUNDS, round_id)
           rejection == GuessRejection(g)
       IN  IF exc # "none"
           THEN /\ req' = Finish(r, Fault(exc))
                /\ UNCHANGED <<ROUNDS, hist>>
           ELSE IF round_id = MissingId \/ round_id \notin DOMAIN ROUNDS
           THEN /\ req' = [Finish(r, LookupMiss(hist, round_id))
                              EXCEPT ![r].cause = cause]
                /\ UNCHANGED <<ROUNDS, hist>>
           ELSE /\ ROUNDS' = Pop(ROUNDS, round_id)
                /\ hist' = NoteRemoved(hist, ROUNDS, round_id, r, "reveal")
                /\ IF rejection # Pending
                   THEN req' = [Finish(r, rejection) EXCEPT ![r].cause = cause]
                   ELSE req' = Finish(r, RevealResponse(PyInt(g).val,
                                                        ROUNDS[round_id].target))
    /\ UNCHANGED <<clock, ticks, sc, rv>>

\* Lines 181-197 in the order of the code: the body is read, the round id
\* is looked up, then the guess is validated. The response that ends the
\* request, or Pending when the handler goes on to line 199.
RevealCheck(h, store, body, round_id, g) ==
    IF BodyException(body, round_id) # "none"
    THEN Fault(BodyException(body, round_id))
    ELSE IF round_id = MissingId \/ round_id \notin DOMAIN store
    THEN LookupMiss(h, round_id)
    ELSE GuessRejection(g)

\* Lines 181-197: the body is read, the round id is looked up (line 185),
\* the guess is validated (lines 188-197). cause notes what the lookup found,
\* when it returned.
reveal_check(r) ==
    /\ req[r].pc = "body"
    /\ req[r].kind = "reveal"
    /\ \E g \in Guesses :
       LET round_id == req[r].rid
           cause == IF BodyException(req[r].body, round_id) # "none"
                    THEN "none"
                    ELSE LookupCause(hist, ROUNDS, round_id)
           early == RevealCheck(hist, ROUNDS, req[r].body, round_id, g)
       IN  IF early # Pending
           THEN req' = [Finish(r, early) EXCEPT ![r].cause = cause]
           ELSE req' = [req EXCEPT ![r].pc = "read",
                                   ![r].guess = PyInt(g).val,
                                   ![r].cause = cause]
    /\ UNCHANGED <<ROUNDS, clock, ticks, hist, sc, rv>>

\* Line 199: target = int(ROUNDS[round_id]["target"]); KeyError when the key
\* is gone.
reveal_read(r) ==
    /\ req[r].pc = "read"
    /\ IF req[r].rid \in DOMAIN ROUNDS
       THEN req' = [req EXCEPT ![r] =
                [@ EXCEPT !.pc = "take",
                          !.target = ROUNDS[req[r].rid].target]]
       ELSE req' = Finish(r, Fault("KeyError"))
    /\ UNCHANGED <<ROUNDS, clock, ticks, hist, sc, rv>>

\* Lines 200-211: ROUNDS.pop(round_id, None), the score, the response.
reveal_take(r) ==
    /\ req[r].pc = "take"
    /\ ROUNDS' = Pop(ROUNDS, req[r].rid)
    /\ hist' = NoteRemoved(hist, ROUNDS, req[r].rid, r, "reveal")
    /\ req' = Finish(r, RevealResponse(req[r].guess, req[r].target))
    /\ UNCHANGED <<clock, ticks, sc, rv>>

\* ------------------------------------------------------------ create_round
\* What a generator call does: it returns a parsed object ("ok"); pydantic
\* raises ValidationError on a value that breaks a field validator of lines
\* 40-66 ("invalid") or on output that is no JSON, lacks a key or has a
\* field of the wrong type ("mistyped"); the call returns with output_parsed
\* None (lines 97-99, 129-130: RuntimeError, "unparsed"); or the client
\* raises a backend error ("backend").
GeneratorOutcomes == {"ok", "invalid", "mistyped", "unparsed", "backend"}

\* The exception a generator call leaves make_anchors / make_clue with.
GeneratorException(outcome) ==
    CASE outcome = "ok"       -> "none"
      [] outcome = "invalid"  -> "ValidationError"
      [] outcome = "mistyped" -> "ValidationError"
      [] outcome = "unparsed" -> "RuntimeError"
      [] outcome = "backend"  -> "APIError"

\* Whether jsonify can serialize e.errors() (line 157): the errors of a
\* field validator carry the ValueError it raised (ctx.error), which is not
\* JSON serializable.
ErrorsSerializable(outcome) == outcome # "invalid"

\* The except clauses of lines 156-159. An exception raised inside the
\* clause of line 157 is caught by no clause.
GenerationResponse(outcome) ==
    IF GeneratorException(outcome) = "ValidationError"
    THEN IF ErrorsSerializable(outcome)
         THEN [status |-> 500, error |-> "model_output_invalid",
               details |-> "errors"]
         ELSE Fault("TypeError")
    ELSE [status |-> 500, error |-> "generation_failed", details |-> "cause"]

\* A generator call did not return: the request ends in the except clause
\* that catches the exception.
GenerationFailed(r, outcome) ==
    [Finish(r, GenerationResponse(outcome)) EXCEPT ![r].cause = outcome]

\* The "theme" of a create body: absent, null or blank; a string with text;
\* or a truthy value that is no string (a number, an array, an object, true).
Themes == {"blank", "text", "nonstring"}

\* Lines 145-151: the theme is read and checked, the target is drawn.
\* body.get (line 146) raises AttributeError on a body that is no object, and
\* .strip() raises AttributeError on a theme that is no string.
create_round_validate(r) ==
    /\ req[r].pc = "body"
    /\ req[r].kind = "create"
    /\ IF req[r].body # "object"
       THEN req' = Finish(r, Fault("AttributeError"))
       ELSE \E theme \in Themes :
               CASE theme = "nonstring" ->
                        req' = Finish(r, Fault("AttributeError"))
                 [] theme = "blank" ->
                        req' = Finish(r, ErrorResponse(400, "theme is required"))
                 [] theme = "text" ->
                        \E t \in Targets :
                            req' = [req EXCEPT ![r].pc = "anchors",
                                               ![r].target = t]
    /\ UNCHANGED <<ROUNDS, clock, ticks, hist, sc, rv>>

\* Line 154: anchors = make_anchors(theme).
create_round_anchors(r) ==
    /\ req[r].pc = "anchors"
    /\ \E outcome \in GeneratorOutcomes :
          IF outcome = "ok"
          THEN req' = [req EXCEPT ![r].pc = "clue"]
          ELSE req' = GenerationFailed(r, outcome)
    /\ UNCHANGED <<ROUNDS, clock, ticks, hist, sc, rv>>

\* create_round with the record stored before the clue is generated.
create_round_clue_PutFirst(r) ==
    /\ req[r].pc = "clue"
    /\ LET round_id == Cardinality(DOMAIN hist) + 1
           target == req[r].target
       IN  /\ ROUNDS' = Put(ROUNDS, round_id,
                            [target |-> target, created_at |-> clock])
           /\ hist' = Put(hist, round_id,
                          [target |-> target, created_at |-> clock,
                           clued |-> target,
                           putBy |-> r, removedBy |-> 0, via |-> "none"])
           /\ \E outcome \in GeneratorOutcomes :
                 IF outcome = "ok"
                 THEN req' = [Finish(r, CreateResponse(round_id, target))
                                 EXCEPT ![r].rid = round_id]
                 ELSE req' = GenerationFailed(r, outcome)
    /\ UNCHANGED <<clock, ticks, sc, rv>>

\* Line 155: clue = make_clue(theme, anchors, target).
create_round_clue(r) ==
    /\ req[r].pc = "clue"
    /\ \E outcome \in GeneratorOutcomes :
          IF outcome = "ok"
          THEN req' = [req EXCEPT ![r].pc = "put",
                                  ![r].clued = req[r].target]
          ELSE req' = GenerationFailed(r, outcome)
    /\ UNCHANGED <<ROUNDS, clock, ticks, hist, sc, rv>>

\* Lines 161-162, first half: the id is drawn and the dict literal is
\* evaluated, which reads the clock: created_at = time.time().
create_round_stamp(r) ==
    /\ req[r].pc = "put"
    /\ req' = [req EXCEPT ![r].pc = "store", ![r].created_at = clock]
    /\ UNCHANGED <<ROUNDS, clock, ticks, hist, sc, rv>>

\* create_round storing a target other than the one it drew.
create_round_put_Redraw(r) ==
    /\ req[r].pc = "store"
    /\ LET round_id == Cardinality(DOMAIN hist) + 1
           target == req[r].target
       IN  /\ \E t \in Targets \ {target} :
                  ROUNDS' = Put(ROUNDS, round_id,
                                [target |-> t, created_at |-> req[r].created_at])
           /\ hist' = Put(hist, round_id,
                          [target |-> target, created_at |-> req[r].created_at,
                           clued |-> req[r].clued,
                           putBy |-> r, removedBy |-> 0, via |-> "none"])
           /\ req' = [Finish(r, CreateResponse(round_id, target))
                         EXCEPT ![r].rid = round_id]
    /\ UNCHANGED <<clock, ticks, sc, rv>>

\* Lines 162-174: the record {target, created_at} is stored under the fresh
\* id, the public view is returned.
create_round_put(r) ==
    /\ req[r].pc = "store"
    /\ LET round_id == Cardinality(DOMAIN hist) + 1
           target == req[r].target
       IN  /\ ROUNDS' = Put(ROUNDS, round_id,
                            [target |-> target, created_at |-> req[r].created_at])
           /\ hist' = Put(hist, round_id,
                          [target |-> target, created_at |-> req[r].created_at,
                           clued |-> req[r].clued,
                           putBy |-> r, removedBy |-> 0, via |-> "none"])
           /\ req' = [Finish(r, CreateResponse(round_id, target))
                         EXCEPT ![r].rid = round_id]
    /\ UNCHANGED <<clock, ticks, sc, rv>>

\* ---------------------------------------------------------------- clock
Tick ==
    /\ ticks < MaxTicks
    /\ \E d \in TickSteps : clock' = clock + d
    /\ ticks' = ticks + 1
    /\ UNCHANGED <<ROUNDS, req, hist, sc, rv>>

Next ==
    \/ \E r \in Requests : request_begin(r)
    \/ \E r \in Requests : cleanup_iter(r)
    \/ \E r \in Requests : cleanup_scan(r)
    \/ \E r \in Requests : cleanup_pop(r)
    \/ \E r \in Requests : reveal_check(r)
    \/ \E r \in Requests : reveal_read(r)
    \/ \E r \in Requests : reveal_take(r)
    \/ \E r \in Requests : create_round_validate(r)
    \/ \E r \in Requests : create_round_anchors(r)
    \/ \E r \in Requests : create_round_clue(r)
    \/ \E r \in Requests : create_round_stamp(r)
    \/ \E r \in Requests : create_round_put(r)
    \/ Tick

Spec == Init /\ [][Next]_vars
\* ------------------------------------------------- the scoring, on its own
\* Lines 202-211 applied to every validated guess and every target.
InitScore ==
    /\ ROUNDS = EmptyStore
    /\ clock = 0
    /\ ticks = 0
    /\ req = [r \in Requests |-> IdleReq]
    /\ hist = EmptyStore
    /\ \E g \in GuessMin .. GuessMax : \E t \in TargetMin .. TargetMax :
          sc = [guess |-> g, target |-> t, resp |-> Pending]
    /\ rv = NoReveal

score_apply ==
    /\ sc.resp = Pending
    /\ sc' = [sc EXCEPT !.resp = RevealResponse(sc.guess, sc.target)]
    /\ UNCHANGED <<ROUNDS, clock, ticks, req, hist, rv>>

NextScore == score_apply

SpecScore == InitScore /\ [][NextScore]_vars
\* --------------------------------------------------- one reveal, served alone
\* Bodies a reveal can carry as "guess", of every JSON type.
AllGuesses ==
    {GuessValue("null", 0), GuessValue("text", 0), GuessValue("list", 0),
     GuessValue("inf", 0), GuessValue("bool", 0), GuessValue("bool", 1)}
    \cup {GuessValue("int", v) : v \in {0 - 1, 0, 3, 31, 100, 101, 150}}
    \cup {GuessValue("float", v) : v \in {0 - 5, 37, 300, 1005, 1010}}
    \cup {GuessValue("numstr", v) : v \in {31, 150}}

\* cleanup_old_rounds run without interruption (lines 26-33): what is left of
\* the store.
Sweep(store, now) ==
    [i \in {k \in DOMAIN store : ~IsExpired(now, store[k])} |-> store[i]]

\* The store holds no record or the record of round 1, of any age up to just
\* over the TTL; one reveal request is about to be served.
InitReveal ==
    /\ ticks = 0
    /\ req = [r \in Requests |-> IdleReq]
    /\ sc = NoScore
    /\ clock \in {0, ROUND_TTL_SECONDS, ROUND_TTL_SECONDS + 1}
    /\ \E t \in Targets :
          \/ ROUNDS = EmptyStore /\ hist = EmptyStore
          \/ /\ ROUNDS = Put(EmptyStore, 1, [target |-> t, created_at |-> 0])
             /\ hist = Put(EmptyStore, 1,
                           [target |-> t, created_at |-> 0, clued |-> t,
                            putBy |-> 0, removedBy |-> 0, via |-> "none"])
    /\ \/ \E id \in {MissingId, 1, BogusId, UnhashableId} :
          \E g \in AllGuesses :
             rv = [body |-> "object", rid |-> id, guess |-> g,
                   resp |-> Pending]
       \/ rv = [body |-> "other", rid |-> NoInt,
                guess |-> GuessValue("null", 0), resp |-> Pending]

\* reveal (lines 177-211) from its first line to its return, with no other
\* request in progress.
reveal_serial ==
    /\ rv.resp = Pending
    /\ LET swept == Sweep(ROUNDS, clock)
           early == RevealCheck(hist, swept, rv.body, rv.rid, rv.guess)
       IN  IF early # Pending
           THEN /\ rv' = [rv EXCEPT !.resp = early]
                /\ ROUNDS' = swept
           ELSE /\ rv' = [rv EXCEPT !.resp =
                            RevealResponse(PyInt(rv.guess).val,
                                           swept[rv.rid].target)]
                /\ ROUNDS' = Pop(swept, rv.rid)
    /\ UNCHANGED <<clock, ticks, req, hist, sc>>

NextReveal == reveal_serial

SpecReveal == InitReveal /\ [][NextReveal]_vars

\* ------------------------------------------------------------- the claims
Done(r) == req[r].pc = "done"
RevealDone(r) == Done(r) /\ req[r].kind = "reveal"
Succeeded(r) == RevealDone(r) /\ req[r].resp.status = 200
\* r and s were in progress at the same time.
Concurrent(r, s) == r # s /\ r \notin req[s].prior /\ s \notin req[r].prior
\* The record of r's round id was in the store when r arrived.
PresentAtStart(r) == req[r].rid \in req[r].atStart
AgeAtStart(r) == req[r].now - hist[req[r].rid].created_at
ValidationFailures ==
    { ErrorResponse(400, "guess is required"),
      ErrorResponse(400, "guess must be an integer 0-100"),
      ErrorResponse(400, "guess out of range") }

\* C1: for every round id at most one reveal succeeds, and every reveal of
\* the same id that arrives after a successful one has returned answers
\* unknown_or_expired_round.
C1_AtMostOneReveal ==
    /\ \A i \in DOMAIN hist :
          Cardinality({r \in Requests : Succeeded(r) /\ req[r].rid = i}) <= 1
    /\ \A r, s \in Requests :
          (Succeeded(s) /\ RevealDone(r) /\ s \in req[r].prior
              /\ req[r].rid = req[s].rid)
          => req[r].resp = UnknownRound

\* C2: of two reveals of the same round id that run concurrently, both
\* arriving while the record is in the store and not older than the TTL,
\* both with a valid guess and neither ending in an unhandled exception,
\* exactly one succeeds and the other answers unknown_or_expired_round (the
\* record not having been swept meanwhile).
C2_ConcurrentRevealsOneWinner ==
    \A r, s \in Requests :
        (RevealDone(r) /\ RevealDone(s) /\ Concurrent(r, s)
            /\ req[r].rid = req[s].rid
            /\ PresentAtStart(r) /\ PresentAtStart(s)
            /\ AgeAtStart(r) <= ROUND_TTL_SECONDS
            /\ AgeAtStart(s) <= ROUND_TTL_SECONDS
            /\ hist[req[r].rid].via # "sweep"
            /\ req[r].resp \notin ValidationFailures
            /\ req[s].resp \notin ValidationFailures
            /\ req[r].resp.status # 500
            /\ req[s].resp.status # 500)
        => \/ Succeeded(r) /\ req[s].resp = UnknownRound
           \/ Succeeded(s) /\ req[r].resp = UnknownRound

\* C3: a response carries a target only when it is the response of a
\* successful reveal, and then it is the target drawn for that reveal's round
\* id; the response of create_round never has a target field; and for every
\* round id at most one response, the single successful reveal, carries its
\* target.
C3_TargetOnlyInReveal ==
    /\ \A r \in Requests :
          /\ req[r].kind = "create" => "target" \notin DOMAIN req[r].resp
          /\ "target" \in DOMAIN req[r].resp =>
                /\ Succeeded(r)
                /\ req[r].rid \in DOMAIN hist
                /\ req[r].resp.target = hist[req[r].rid].target
    /\ \A i \in DOMAIN hist :
          Cardinality({r \in Requests : /\ "target" \in DOMAIN req[r].resp
                                        /\ req[r].rid = i}) <= 1

\* C4: a reveal that arrives when the record of its round id is in the store
\* and older than the TTL answers unknown_or_expired_round.
C4_ExpiredRevealUnknown ==
    \A r \in Requests :
        (RevealDone(r) /\ PresentAtStart(r)
            /\ AgeAtStart(r) > ROUND_TTL_SECONDS)
        => req[r].resp = UnknownRound

\* C5: a reveal that ends in a guess-validation failure has not consumed the
\* record: its round id was looked up successfully, the record of that id
\* was not removed by this request, and whatever this request removed, its
\* sweep removed as older than the TTL.
C5_ValidationFailureKeepsRecord ==
    \A r \in Requests :
        (RevealDone(r) /\ req[r].resp \in ValidationFailures)
        => /\ req[r].rid \in DOMAIN hist
           /\ hist[req[r].rid].removedBy # r
           /\ \A i \in DOMAIN hist :
                 hist[i].removedBy = r =>
                     /\ hist[i].via = "sweep"
                     /\ req[r].now - hist[i].created_at > ROUND_TTL_SECONDS

\* A reveal failed validation on a round id, and a later reveal of the same
\* id succeeded with the target drawn for it.
C5_Witness ==
    \E r, s \in Requests :
        /\ RevealDone(r) /\ req[r].resp \in ValidationFailures
        /\ Succeeded(s) /\ r \in req[s].prior /\ req[s].rid = req[r].rid
        /\ req[s].resp.target = hist[req[s].rid].target

\* C6: for a guess and a target in 0..100 the reveal response has
\* distance = |guess - target|, in 0..100, and the winning score exactly when
\* the distance is at most 19; distance 20 loses.
C6_ScoreBoundary ==
    sc.resp # Pending =>
        LET d == sc.resp.distance
        IN  /\ d >= 0 /\ d <= 100
            /\ d = sc.guess - sc.target \/ d = sc.target - sc.guess
            /\ sc.resp.target = sc.target
            /\ (sc.resp.score = "You Won!") <=> (d <= 19)
            /\ d = 20 => sc.resp.score = "AWW... You Lost!"

\* The boundary: a scored pair at distance exactly 20.
C6_Witness ==
    /\ sc.resp # Pending
    /\ sc.resp.distance = 20
    /\ sc.resp.score = "AWW... You Lost!"

\* The round id of reveal r names no live round when r arrives: it was never
\* issued, its record has already left the store (revealed or swept), or its
\* record is in the store and older than the TTL.
NoLiveRoundAtStart(r) ==
    /\ req[r].kind = "reveal"
    /\ req[r].body = "object"
    /\ \/ req[r].rid = BogusId
       \/ req[r].rid \in DOMAIN hist /\ ~PresentAtStart(r)
       \/ PresentAtStart(r) /\ AgeAtStart(r) > ROUND_TTL_SECONDS

\* C7: a reveal whose round id was never issued, was already revealed or has
\* expired answers unknown_or_expired_round in all three cases, whatever the
\* guess, so that the three causes cannot be told apart.
C7_UniformMiss ==
    \A r \in Requests :
        (RevealDone(r) /\ NoLiveRoundAtStart(r))
        => req[r].resp = UnknownRound

\* C8: every record in the store was put by a create_round that returned
\* success with that round id; a create_round that failed put nothing.
C8_FailedCreatePutsNothing ==
    /\ \A i \in DOMAIN ROUNDS :
          \E r \in Requests :
              /\ Done(r) /\ req[r].kind = "create"
              /\ req[r].resp.status = 200 /\ req[r].resp.roundId = i
    /\ \A r \in Requests :
          (req[r].kind = "create" /\ ~(Done(r) /\ req[r].resp.status = 200))
          => \A i \in DOMAIN hist : hist[i].putBy # r

\* A create_round ended in a generator failure while the store holds exactly
\* the record of another create_round, which returned success.
C8_Witness ==
    \E r, s \in Requests :
        /\ Done(r) /\ req[r].kind = "create"
        /\ req[r].resp.status = 500
        /\ req[r].resp.error \in {"model_output_invalid", "generation_failed"}
        /\ Done(s) /\ req[s].kind = "create" /\ req[s].resp.status = 200
        /\ DOMAIN ROUNDS = {req[s].resp.roundId}

\* C9: a reveal whose lookup of its round id (line 185) returned ends in
\* success, a validation failure or unknown_or_expired_round, never in an
\* unhandled exception.
C9_RevealDeclaredOutcome ==
    \A r \in Requests :
        (RevealDone(r) /\ req[r].cause # "none")
        => \/ Succeeded(r)
           \/ req[r].resp \in ValidationFailures
           \/ req[r].resp = UnknownRound

\* C10: no sweep ends in an exception, a sweep removes only records older
\* than the TTL, and no record is both removed by a sweep and delivered by a
\* successful reveal.
C10_SweepSafe ==
    /\ \A r \in Requests : Done(r) => req[r].resp # Fault("RuntimeError")
    /\ \A i \in DOMAIN hist :
          hist[i].via = "sweep" =>
              /\ req[hist[i].removedBy].now - hist[i].created_at
                     > ROUND_TTL_SECONDS
              /\ ~ \E r \in Requests : Succeeded(r) /\ req[r].rid = i
\* A guess that is no integer in [0, 100] on any reading: null, a boolean, a
\* non-numeric value, a number with a fractional part, or an integer out of
\* range.
InvalidGuess(g) ==
    \/ g.t \in {"null", "bool", "text", "list", "inf"}
    \/ g.t = "float" /\ g.v % 10 # 0
    \/ g.t = "int" /\ ~(GuessMin <= g.v /\ g.v <= GuessMax)
\* The reveal served alone found the record of its round id in the store,
\* not older than the TTL.
ServedOnRecord ==
    /\ rv.resp # Pending
    /\ rv.rid \in DOMAIN hist
    /\ clock - hist[rv.rid].created_at <= ROUND_TTL_SECONDS

\* C11: reveal validates the guess before it looks the round id up: whatever
\* the id (a body that is an object, with a roundId that is absent or can be
\* looked up), a guess that is no integer in [0, 100] is answered with a
\* validation failure, and unknown_or_expired_round is answered only to a
\* request whose guess is valid.
C11_ValidateBeforeLookup ==
    (rv.resp # Pending /\ BodyException(rv.body, rv.rid) = "none") =>
        /\ InvalidGuess(rv.guess) => rv.resp \in ValidationFailures
        /\ rv.resp = UnknownRound => ~InvalidGuess(rv.guess)
\* A guess that is a non-integral number, a boolean or a non-numeric value.
NonIntegerGuess(g) ==
    \/ g.t \in {"bool", "text", "list"}
    \/ g.t = "float" /\ g.v % 10 # 0

\* C17: a reveal whose guess is a non-integral number, a boolean or a
\* non-numeric value, served on a record that is in the store, is answered
\* with a validation failure and leaves the record in the store: the guess is
\* never truncated or coerced, scored, and the record consumed.
C17_NonIntegerRejected ==
    (ServedOnRecord /\ NonIntegerGuess(rv.guess)) =>
        /\ rv.resp \in ValidationFailures
        /\ rv.rid \in DOMAIN ROUNDS
\* C12: a record in the store holds the target that its create_round drew
\* (line 151) and passed to make_clue (line 155) and the created_at of its
\* put, for as long as it is in the store; the target that a successful
\* reveal of an id returns is that drawn target.
C12_TargetFixed ==
    /\ \A i \in DOMAIN ROUNDS :
          /\ ROUNDS[i].target = hist[i].target
          /\ ROUNDS[i].created_at = hist[i].created_at
          /\ hist[i].clued = hist[i].target
    /\ \A r \in Requests :
          Succeeded(r) =>
              /\ req[r].resp.target = hist[req[r].rid].target
              /\ req[r].resp.target = hist[req[r].rid].clued

\* A reveal succeeded on a round whose create has returned, while another
\* record is still in the store.
C12_Witness ==
    \E r \in Requests : \E c \in Requests :
        /\ Succeeded(r)
        /\ Done(c) /\ req[c].kind = "create" /\ req[c].resp.status = 200
        /\ hist[req[r].rid].putBy = c
        /\ req[r].resp.target = hist[req[r].rid].target
        /\ DOMAIN ROUNDS # {}
\* The record of id i has left the store, and how: popped by a reveal of i
\* that succeeded, or popped by the sweep of a request for which it was
\* older than the TTL.
LeftByRevealOrSweep(i) ==
    /\ hist[i].via \in {"reveal", "sweep"}
    /\ hist[i].removedBy \in Requests
    /\ hist[i].via = "reveal" =>
          /\ req[hist[i].removedBy].kind = "reveal"
          /\ req[hist[i].removedBy].rid = i
          /\ Succeeded(hist[i].removedBy)
    /\ hist[i].via = "sweep" =>
          req[hist[i].removedBy].now - hist[i].created_at > ROUND_TTL_SECONDS

\* No step puts back the record of an id that was issued and has left the
\* store.
NoReentry ==
    \A i \in DOMAIN hist :
        i \notin DOMAIN ROUNDS => i \notin DOMAIN ROUNDS'

\* C13: a record that was put is in the store until a successful reveal of
\* its id or a sweep that finds it older than the TTL removes it, and no
\* step makes the id of a removed record present again.
C13_RemovalTerminal ==
    /\ [](\A i \in DOMAIN hist :
             IF i \in DOMAIN ROUNDS
             THEN hist[i].via = "none"
             ELSE LeftByRevealOrSweep(i))
    /\ [][NoReentry]_vars

\* One record has left the store by a successful reveal of its id and
\* another by a sweep, and every request has returned.
C13_Witness ==
    /\ \E i \in DOMAIN hist : \E j \in DOMAIN hist :
          /\ i \notin DOMAIN ROUNDS /\ hist[i].via = "reveal"
          /\ j \notin DOMAIN ROUNDS /\ hist[j].via = "sweep"
    /\ \A r \in Requests : Done(r)

\* The sweep of request r has ended: the request is past cleanup_old_rounds.
SweepEnded(r) == req[r].pc \notin {"idle", "iter", "scan", "pop"}

\* C14: once the sweep that a request ran at time now has ended, no record
\* that was in the store when it began and had now - created_at > TTL is
\* still there; and the records that sweeps have removed are exactly such
\* records, so that a record of age exactly the TTL is retained.
C14_SweepExact ==
    /\ \A r \in Requests :
          SweepEnded(r) =>
              \A i \in req[r].atStart :
                  req[r].now - hist[i].created_at > ROUND_TTL_SECONDS
                      => i \notin DOMAIN ROUNDS
    /\ \A i \in DOMAIN hist :
          hist[i].via = "sweep" =>
              req[hist[i].removedBy].now - hist[i].created_at
                  > ROUND_TTL_SECONDS

\* C15: every request that has returned swept first, whatever it returned:
\* a record that was in the store and older than the TTL when a request
\* started is gone when that request has returned.
C15_ExpiredGoneAfterRequest ==
    \A r \in Requests :
        Done(r) =>
            /\ req[r].now # NoInt
            /\ \A i \in DOMAIN hist :
                  (i \in req[r].atStart /\
                   req[r].now - hist[i].created_at > ROUND_TTL_SECONDS)
                      => i \notin DOMAIN ROUNDS
\* C16: a create_round whose generator call produced a malformed result (one
\* that breaks a field validator or the schema, or one from which no object
\* could be parsed) ends
\* with model_output_invalid and the validation errors, and one whose
\* generator call failed in the backend ends with generation_failed; neither
\* is reported as the other.
C16_GenerationFailureKinds ==
    \A r \in Requests :
        (Done(r) /\ req[r].kind = "create") =>
            /\ req[r].cause \in {"invalid", "mistyped", "unparsed"} =>
                  req[r].resp = [status |-> 500,
                                 error |-> "model_output_invalid",
                                 details |-> "errors"]
            /\ req[r].cause = "backend" =>
                  req[r].resp = [status |-> 500,
                                 error |-> "generation_failed",
                                 details |-> "cause"]
====
